---------------------------- MODULE Spec2Model ----------------------------
(***************************************************************************)
(* Polygon billiards: rigid convex polygons on a bounded table, SAT        *)
(* collision detection, impulse resolution, pocket capture and the         *)
(* drag-to-strike game loop of src/main.py.                                *)
(*                                                                         *)
(* Numbers.  The program computes in binary floating point; the model      *)
(* computes in decimal fixed point, every operation rounded to nearest:    *)
(*   lengths, positions, velocities, impulses : multiples of 1/P           *)
(*   unit vectors, cos/sin, coefficients      : multiples of 1/U           *)
(*   angles, angular velocities               : multiples of 1/W           *)
(*   inverse mass, inverse inertia            : multiples of 1/IM          *)
(* Masses are whole numbers.  dt is a whole number of milliseconds, as     *)
(* clock.tick returns it.  The projections of SAT (a point times a unit    *)
(* vector) are kept exact, as multiples of 1/(P*U); the depth made of them *)
(* is rounded to 1/P.  Quantities that are equal as real numbers are equal *)
(* in the model; in floating point they can differ in the last place.      *)
(***************************************************************************)
EXTENDS Integers, Sequences, FiniteSets, TLC

VARIABLES
    balls,        \* the body collection (main: balls), a sequence of bodies
    cue_ball,     \* main: cue_ball, the identity of the cue body
    is_dragging,  \* main: is_dragging
    start_drag,   \* main: start_drag (None is <<>>)
    show_menu,    \* main: show_menu
    running,      \* main: running
    mouse_pos,    \* main: mouse_pos, sampled once per frame
    pc,           \* "loop" in the while loop of main, "exit" after it; in BodySpec
                  \* and PairSpec, how far the calls on the body or pair have got
    frames,       \* number of loop iterations completed
    trace         \* what the last operation did (a record, for the properties)

vars == <<balls, cue_ball, is_dragging, start_drag, show_menu, running,
          mouse_pos, pc, frames, trace>>

---------------------------------------------------------------------------
(* Fixed-point arithmetic *)

P  == 10 * 10
U  == 10 * 10 * 10
W  == 10 * 10 * 10 * 10
IM == 10 * 10 * 10 * 10 * 10 * 10
Chunk == 10 * 10

\* F(v), with v evaluated once, before F is applied.
With(v, F(_)) == CHOOSE r \in {F(x) : x \in {v}} : TRUE

Abs(x) == IF x < 0 THEN -x ELSE x
Sgn(x) == IF x < 0 THEN -1 ELSE IF x > 0 THEN 1 ELSE 0
Min2(x, y) == IF x < y THEN x ELSE y
Max2(x, y) == IF x > y THEN x ELSE y

\* <<q, r>> with a * b = q * c + r and 0 <= r < c, for a >= 0, b >= 0, 0 < c,
\* c * Chunk below 2^31; no intermediate value exceeds the result's range.
RECURSIVE DivMod(_, _, _)
DivMod(a, b, c) ==
    IF b < Chunk
    THEN With((a % c) * b, LAMBDA t : <<(a \div c) * b + (t \div c), t % c>>)
    ELSE With(<<DivMod(a, b \div Chunk, c), DivMod(a, b % Chunk, c)>>, LAMBDA h :
         With(h[1][2] * Chunk + h[2][2], LAMBDA t :
              <<h[1][1] * Chunk + h[2][1] + (t \div c), t % c>>))

\* a * b / c rounded to nearest (ties away from zero), c > 0.
MulDiv(a, b, c) ==
    With(<<a, b, c>>, LAMBDA v :
    With(DivMod(Abs(v[1]), Abs(v[2]), v[3]), LAMBDA qr :
         Sgn(v[1]) * Sgn(v[2]) * (IF 2 * qr[2] >= v[3] THEN qr[1] + 1 ELSE qr[1])))

\* floor(sqrt(n)) for n >= 0, by Newton's iteration from above.
RECURSIVE SqrtIter(_, _)
SqrtIter(n, x) ==
    With((x + n \div x) \div 2, LAMBDA y : IF y >= x THEN x ELSE SqrtIter(n, y))
SqrtGuess(n) ==
    IF n < 256 THEN 16 ELSE IF n < 4096 THEN 64 ELSE IF n < 65536 THEN 256
    ELSE IF n < 1048576 THEN 1024 ELSE IF n < 16777216 THEN 4096
    ELSE IF n < 268435456 THEN 16384 ELSE 46341
ISqrt(n) == With(n, LAMBDA m : IF m <= 0 THEN 0 ELSE SqrtIter(m, SqrtGuess(m)))

\* 2D vectors are pairs.
VAdd(u, v) == <<u[1] + v[1], u[2] + v[2]>>
VSub(u, v) == <<u[1] - v[1], u[2] - v[2]>>
VNeg(u) == <<-u[1], -u[2]>>
VScale(u, k, s) == <<MulDiv(u[1], k, s), MulDiv(u[2], k, s)>>

\* np.linalg.norm(v) < r, for a threshold r small enough that r * r fits.
NormLess(v, r) ==
    /\ Abs(v[1]) < r
    /\ Abs(v[2]) < r
    /\ v[1] * v[1] + v[2] * v[2] < r * r

\* math.pi, math.cos, math.sin on angles in 1/W radians, results in 1/U.
PI == 31416
SinPoly(x) ==  \* 0 <= x <= pi/4, result in 1/W
    With(MulDiv(x, x, W), LAMBDA x2 :
    With(MulDiv(x2, x, W), LAMBDA x3 :
         x - x3 \div 6 + MulDiv(x3, x2, W) \div 120))
CosPoly(x) ==  \* 0 <= x <= pi/4, result in 1/W
    With(MulDiv(x, x, W), LAMBDA x2 :
    With(MulDiv(x2, x2, W), LAMBDA x4 :
         W - x2 \div 2 + x4 \div 24 - MulDiv(x4, x2, W) \div 720))
SinQ(x) ==  \* 0 <= x <= pi/2
    IF 4 * x <= PI THEN SinPoly(x) ELSE CosPoly(PI \div 2 - x)
CosQ(x) ==
    IF 4 * x <= PI THEN CosPoly(x) ELSE SinPoly(PI \div 2 - x)
SinW(a) ==
    With(a % (2 * PI), LAMBDA x :
        IF 2 * x <= PI THEN SinQ(x)
        ELSE IF x <= PI THEN SinQ(PI - x)
        ELSE IF 2 * x <= 3 * PI THEN -SinQ(x - PI)
        ELSE -SinQ(2 * PI - x))
CosW(a) ==
    With(a % (2 * PI), LAMBDA x :
        IF 2 * x <= PI THEN CosQ(x)
        ELSE IF x <= PI THEN -CosQ(PI - x)
        ELSE IF 2 * x <= 3 * PI THEN -CosQ(x - PI)
        ELSE CosQ(2 * PI - x))
Sin(a) == MulDiv(SinW(a), U, W)
Cos(a) == MulDiv(CosW(a), U, W)

---------------------------------------------------------------------------
(* Settings and constants, src/main.py lines 7-15 *)

SCREEN_WIDTH == 1000
SCREEN_HEIGHT == 600
FPS == 60
TABLE_WIDTH == 800
TABLE_HEIGHT == 400
TABLE_X == (SCREEN_WIDTH - TABLE_WIDTH) \div 2
TABLE_Y == (SCREEN_HEIGHT - TABLE_HEIGHT) \div 2
BORDER_SIZE == 30
HOLE_RADIUS == 25

\* Literals of RigidBody.update, resolve_collision and main, in 1/U or 1/P.
DAMP_VEL == 985
DAMP_ANG == 980
REST_SPEED == 2 * P
REST_SPIN == W \div 10
e_wall == 800
e_rest == 900
STRIKE_SPEED == 5 * P
FORCE_CAP == 300
FORCE_GAIN == 5
CUE_SIDES == 16
CUE_OFFSET == 200
RACK_OFFSET == 600
RACK_ROWS == 5
RACK_STEP == 38
RACK_HALF_STEP == 19
BALL_MASS == 20
BALL_SIZE == 35

---------------------------------------------------------------------------
(* class RigidBody *)

Half(x) == MulDiv(x, 1, 2)

\* The vertex loop of __init__: sides points on the circle of radius size/2.
LocalVertices(size, sides) ==
    With(Half(size), LAMBDA r :
        [k \in 1..sides |->
            With(MulDiv(2 * PI, k - 1, sides), LAMBDA theta :
                 <<MulDiv(r, Cos(theta), U), MulDiv(r, Sin(theta), U)>>)])

\* RigidBody.__init__(x, y, mass, color, shape_type, size); `sides` is the value
\* random.randint(3, 6) returns, `id` the identity of the new object.  The
\* colour is display only and is left out.  x, y, size in whole units.
RigidBody(id, x, y, mass, shape_type, size, sides) ==
    With(Half(size * P), LAMBDA radius :
    With(MulDiv(mass * radius, radius, 2 * P), LAMBDA inertia :
        [id          |-> id,
         pos         |-> <<x * P, y * P>>,
         vel         |-> <<0, 0>>,
         angle       |-> 0,
         ang_vel     |-> 0,
         mass        |-> mass,
         inv_mass    |-> IF mass > 0 THEN MulDiv(IM, 1, mass) ELSE 0,
         size        |-> size * P,
         is_cue      |-> (shape_type = "cue"),
         inertia     |-> inertia,
         inv_inertia |-> IF inertia > 0 THEN MulDiv(IM, P, inertia) ELSE 0,
         local_vertices |->
             LocalVertices(size * P, IF shape_type = "cue" THEN CUE_SIDES ELSE sides)]))

\* Lines 62-63: the clamp to rest.
RestVel(v) == With(v, LAMBDA w : IF NormLess(w, REST_SPEED) THEN <<0, 0>> ELSE w)
RestSpin(a) == With(a, LAMBDA w : IF Abs(w) < REST_SPIN THEN 0 ELSE w)

\* WallClamp with inclusive tests that put the body one step inside the wall.
WallClampInside(p, v, lo, hi) ==
    IF p <= lo THEN <<lo + 1, MulDiv(v, -e_wall, U)>>
    ELSE IF p >= hi THEN <<hi - 1, MulDiv(v, -e_wall, U)>>
    ELSE <<p, v>>

\* One axis of the wall containment of update: <<position, velocity>> after it.
WallClamp(p, v, lo, hi) ==
    IF p < lo THEN <<lo, MulDiv(v, -e_wall, U)>>
    ELSE IF p > hi THEN <<hi, MulDiv(v, -e_wall, U)>>
    ELSE <<p, v>>

\* RigidBody.update(dt), dt in milliseconds.
update(b, dt) ==
    With(<<VAdd(b.pos, VScale(b.vel, dt, 1000)),
           RestVel(VScale(b.vel, DAMP_VEL, U)),
           Half(b.size)>>, LAMBDA s :
    With(<<WallClamp(s[1][1], s[2][1], TABLE_X * P + s[3],
                     (TABLE_X + TABLE_WIDTH) * P - s[3]),
           WallClamp(s[1][2], s[2][2], TABLE_Y * P + s[3],
                     (TABLE_Y + TABLE_HEIGHT) * P - s[3])>>, LAMBDA c :
        [b EXCEPT !.pos = <<c[1][1], c[2][1]>>,
                  !.vel = <<c[1][2], c[2][2]>>,
                  !.angle = b.angle + MulDiv(b.ang_vel, dt, 1000),
                  !.ang_vel = RestSpin(MulDiv(b.ang_vel, DAMP_ANG, U))]))

\* RigidBody.get_world_vertices
get_world_vertices(b) ==
    With(<<Cos(b.angle), Sin(b.angle)>>, LAMBDA cs :
        [k \in 1..Len(b.local_vertices) |->
            <<b.pos[1] + MulDiv(cs[1] * b.local_vertices[k][1]
                                - cs[2] * b.local_vertices[k][2], 1, U),
              b.pos[2] + MulDiv(cs[2] * b.local_vertices[k][1]
                                + cs[1] * b.local_vertices[k][2], 1, U)>>])

---------------------------------------------------------------------------
(* Collision detection (SAT) *)

\* The normal of the edge from vertex i of get_axes, <<>> for a degenerate edge.
EdgeAxis(vertices, i) ==
    With(VSub(vertices[i], vertices[(i % Len(vertices)) + 1]), LAMBDA edge :
    With(ISqrt(edge[2] * edge[2] + edge[1] * edge[1]), LAMBDA length :
        IF length > 0
        THEN <<MulDiv(-edge[2], U, length), MulDiv(edge[1], U, length)>>
        ELSE <<>>))

\* get_axes: one unit normal per edge, degenerate edges skipped.
get_axes(vertices) ==
    SelectSeq([i \in 1..Len(vertices) |-> EdgeAxis(vertices, i)], LAMBDA a : a # <<>>)

\* np.dot of a point (1/P) with a unit vector (1/U): exact, in 1/(P*U).
DotPU(v, axis) == v[1] * axis[1] + v[2] * axis[2]

\* project: (min, max) of the projections, in 1/(P*U).
project(vertices, axis) ==
    With({DotPU(vertices[k], axis) : k \in 1..Len(vertices)}, LAMBDA dots :
        <<CHOOSE x \in dots : \A y \in dots : x <= y,
          CHOOSE x \in dots : \A y \in dots : x >= y>>)

NoCollision == [hit |-> FALSE, normal |-> <<0, 0>>, depth |-> 0]

\* Line 117: the overlap of two projection intervals.
Overlap(pa, pb) == Min2(pa[2], pb[2]) - Max2(pa[1], pb[1])

\* The axis loop of check_collision_sat from axis i on; min_overlap < 0 stands
\* for float('inf').  Yields NoCollision or <<min_overlap, collision_normal>>.
RECURSIVE SatScan(_, _, _, _, _, _)
SatScan(verts_a, verts_b, axes, i, min_overlap, collision_normal) ==
    IF i > Len(axes) THEN <<min_overlap, collision_normal>>
    ELSE With(<<project(verts_a, axes[i]), project(verts_b, axes[i])>>, LAMBDA p :
         IF p[1][2] < p[2][1] \/ p[2][2] < p[1][1] THEN NoCollision
         ELSE With(Overlap(p[1], p[2]), LAMBDA overlap :
              IF min_overlap < 0 \/ overlap < min_overlap
              THEN SatScan(verts_a, verts_b, axes, i + 1, overlap, axes[i])
              ELSE SatScan(verts_a, verts_b, axes, i + 1, min_overlap, collision_normal)))

\* The orientation of the normal, lines 122-123.
OrientNormal(body_a, body_b, n) ==
    IF DotPU(VSub(body_b.pos, body_a.pos), n) < 0 THEN VNeg(n) ELSE n

\* check_collision_sat: [hit, normal in 1/U, depth in 1/P].
check_collision_sat(body_a, body_b) ==
    With(<<get_world_vertices(body_a), get_world_vertices(body_b)>>, LAMBDA verts :
    With(get_axes(verts[1]) \o get_axes(verts[2]), LAMBDA axes :
    With(SatScan(verts[1], verts[2], axes, 1, -1, <<0, 0>>), LAMBDA r :
        IF r = NoCollision THEN NoCollision
        ELSE [hit    |-> TRUE,
              normal |-> OrientNormal(body_a, body_b, r[2]),
              depth  |-> MulDiv(r[1], 1, U)])))

---------------------------------------------------------------------------
(* Collision response (impulse) *)

\* get_support: the first vertex of maximal projection onto direction.
get_support(vertices, direction) ==
    With([k \in 1..Len(vertices) |-> DotPU(vertices[k], direction)], LAMBDA d :
        vertices[CHOOSE k \in 1..Len(d) :
                    /\ \A m \in 1..Len(d) : d[m] <= d[k]
                    /\ \A m \in 1..(k - 1) : d[m] < d[k]])

\* cross_2d on a lever arm (1/P) and a unit vector (1/U), result in 1/P.
CrossPU(v1, v2) == MulDiv(v1[1] * v2[2] - v1[2] * v2[1], 1, U)
\* cross_2d on a lever arm (1/P) and an impulse (1/P), result in 1/P.
CrossPP(v1, v2) == MulDiv(v1[1], v2[2], P) - MulDiv(v1[2], v2[1], P)
\* np.dot of a velocity (1/P) with a unit vector (1/U), result in 1/P.
DotVel(v, n) == MulDiv(v[1], n[1], U) + MulDiv(v[2], n[2], U)

\* Velocity of the body's point at lever arm r: vel + ang_vel x r (lines 162-163).
PointVel(b, r) ==
    VAdd(b.vel, <<-MulDiv(b.ang_vel, r[2], W), MulDiv(b.ang_vel, r[1], W)>>)

\* Separate with the two signs exchanged: each body moves towards the other.
SeparateInward(body_a, body_b, normal, depth) ==
    With(VScale(normal, depth, 2 * U), LAMBDA move :
        <<[body_a EXCEPT !.pos = VAdd(body_a.pos, move)],
          [body_b EXCEPT !.pos = VSub(body_b.pos, move)]>>)

\* Lines 143-145: both bodies pushed apart along normal by depth / 2.
Separate(body_a, body_b, normal, depth) ==
    With(VScale(normal, depth, 2 * U), LAMBDA move :
        <<[body_a EXCEPT !.pos = VSub(body_a.pos, move)],
          [body_b EXCEPT !.pos = VAdd(body_b.pos, move)]>>)

\* Lines 147-155: the contact point, chosen among the two support points.
ContactPoint(a, b, normal) ==
    With(<<get_support(get_world_vertices(a), normal),
           get_support(get_world_vertices(b), VNeg(normal))>>, LAMBDA contact :
        IF DotPU(VSub(contact[1], b.pos), VNeg(normal))
             > DotPU(VSub(contact[2], a.pos), normal)
        THEN contact[1] ELSE contact[2])

\* Lines 157-165: vel_normal for the lever arms r_a, r_b.
VelNormal(a, b, r_a, r_b, normal) ==
    DotVel(VSub(PointVel(b, r_b), PointVel(a, r_a)), normal)

\* Lines 157-158: the lever arms r_a, r_b of the contact point.
ContactArms(a, b, normal) ==
    With(ContactPoint(a, b, normal), LAMBDA contact_point :
        <<VSub(contact_point, a.pos), VSub(contact_point, b.pos)>>)

\* Separating without the test: every pair is taken as approaching.
SeparatingIgnored(vel_normal) == FALSE

\* Line 167: the pair is separating, no impulse.
Separating(vel_normal) == vel_normal > 0

\* Lines 173-174: the impulse magnitude j (1/P).
ImpulseJ(a, b, r_a, r_b, normal, vel_normal) ==
    With(<<CrossPU(r_a, normal), CrossPU(r_b, normal)>>, LAMBDA rn :
    With((a.inv_mass + b.inv_mass)
         + MulDiv(rn[1] * rn[1], a.inv_inertia, P * P)
         + MulDiv(rn[2] * rn[2], b.inv_inertia, P * P), LAMBDA denom :
        MulDiv(MulDiv(-(U + e_rest), vel_normal, U), IM, denom)))

\* ApplyImpulse with body_a's inverse mass used for both bodies.
ApplyImpulseOneMass(a, b, r_a, r_b, impulse) ==
    <<[a EXCEPT !.vel = VSub(a.vel, VScale(impulse, a.inv_mass, IM)),
                !.ang_vel = a.ang_vel
                    - MulDiv(CrossPP(r_a, impulse), a.inv_inertia, (IM * P) \div W)],
      [b EXCEPT !.vel = VAdd(b.vel, VScale(impulse, a.inv_mass, IM)),
                !.ang_vel = b.ang_vel
                    + MulDiv(CrossPP(r_b, impulse), b.inv_inertia, (IM * P) \div W)]>>

\* Lines 176-182: the impulse pair applied to a and b.
ApplyImpulse(a, b, r_a, r_b, impulse) ==
    <<[a EXCEPT !.vel = VSub(a.vel, VScale(impulse, a.inv_mass, IM)),
                !.ang_vel = a.ang_vel
                    - MulDiv(CrossPP(r_a, impulse), a.inv_inertia, (IM * P) \div W)],
      [b EXCEPT !.vel = VAdd(b.vel, VScale(impulse, b.inv_mass, IM)),
                !.ang_vel = b.ang_vel
                    + MulDiv(CrossPP(r_b, impulse), b.inv_inertia, (IM * P) \div W)]>>

\* Lines 147-182, on the bodies already pushed apart.
Respond(a, b, normal) ==
    With(ContactArms(a, b, normal), LAMBDA r :
    With(VelNormal(a, b, r[1], r[2], normal), LAMBDA vel_normal :
        IF Separating(vel_normal) THEN <<a, b>>
        ELSE With(ImpulseJ(a, b, r[1], r[2], normal, vel_normal), LAMBDA j :
             With(VScale(normal, j, U), LAMBDA impulse :
                  ApplyImpulse(a, b, r[1], r[2], impulse)))))

\* resolve_collision(body_a, body_b, normal, depth): the two bodies after it.
resolve_collision(body_a, body_b, normal, depth) ==
    IF body_a.inv_mass + body_b.inv_mass = 0 THEN <<body_a, body_b>>
    ELSE With(Separate(body_a, body_b, normal, depth), LAMBDA moved :
              Respond(moved[1], moved[2], normal))

---------------------------------------------------------------------------
(* Game logic *)

\* get_pockets: the six pocket centres, row by row (1/P).
get_pockets ==
    LET xs == <<TABLE_X + BORDER_SIZE, TABLE_X + TABLE_WIDTH \div 2,
                TABLE_X + TABLE_WIDTH - BORDER_SIZE>>
        ys == <<TABLE_Y + BORDER_SIZE, TABLE_Y + TABLE_HEIGHT - BORDER_SIZE>>
    IN  [k \in 1..6 |-> <<xs[((k - 1) % 3) + 1] * P, ys[((k - 1) \div 3) + 1] * P>>]

\* check_pocket_fall(ball, pockets)
check_pocket_fall(ball, pockets) ==
    \E k \in 1..Len(pockets) : NormLess(VSub(ball.pos, pockets[k]), HOLE_RADIUS * P)

\* The spawn point of the cue body, lines 199 and 283 (whole units).
SpawnX == TABLE_X + CUE_OFFSET
SpawnY == TABLE_Y + TABLE_HEIGHT \div 2

\* The rack loop of init_game: row i, column j (both from 0) of target k.
RackRow(k) == CHOOSE i \in 0..(RACK_ROWS - 1) :
                  (i * (i + 1)) \div 2 < k /\ k <= ((i + 1) * (i + 2)) \div 2
RackCol(k) == k - 1 - (RackRow(k) * (RackRow(k) + 1)) \div 2
RackSize == (RACK_ROWS * (RACK_ROWS + 1)) \div 2

\* init_game with the rack loop one row short.
init_game_short(sides) ==
    <<RigidBody(0, SpawnX, SpawnY, BALL_MASS, "cue", BALL_SIZE, CUE_SIDES)>> \o
    [k \in 1..(RackSize - RACK_ROWS) |->
        RigidBody(k, TABLE_X + RACK_OFFSET + RackRow(k) * RACK_STEP,
                  TABLE_Y + TABLE_HEIGHT \div 2
                      + RackCol(k) * RACK_STEP - RackRow(k) * RACK_HALF_STEP,
                  BALL_MASS, "poly", BALL_SIZE, sides[k])]

\* init_game(): the cue body, then the rack; sides[k] is what random.randint
\* returns for target k.  The cue body has identity 0, target k identity k.
init_game(sides) ==
    <<RigidBody(0, SpawnX, SpawnY, BALL_MASS, "cue", BALL_SIZE, CUE_SIDES)>> \o
    [k \in 1..RackSize |->
        RigidBody(k, TABLE_X + RACK_OFFSET + RackRow(k) * RACK_STEP,
                  TABLE_Y + TABLE_HEIGHT \div 2
                      + RackCol(k) * RACK_STEP - RackRow(k) * RACK_HALF_STEP,
                  BALL_MASS, "poly", BALL_SIZE, sides[k])]

\* pygame.Rect(left, top, width, height).collidepoint(point)
Rect(left, top, width, height) == [left |-> left, top |-> top, width |-> width, height |-> height]
collidepoint(rect, point) ==
    /\ rect.left <= point[1] /\ point[1] < rect.left + rect.width
    /\ rect.top <= point[2] /\ point[2] < rect.top + rect.height
btn_menu_rect  == Rect(SCREEN_WIDTH - 110, 10, 100, 40)
btn_reset_rect == Rect(SCREEN_WIDTH - 110, 60, 100, 40)
btn_quit_rect  == Rect(SCREEN_WIDTH - 110, 110, 100, 40)

\* The place in the collection of the body with identity id (0 if gone).
IndexOf(bs, id) ==
    IF \E i \in 1..Len(bs) : bs[i].id = id
    THEN CHOOSE i \in 1..Len(bs) : bs[i].id = id
    ELSE 0
Ids(bs) == [i \in 1..Len(bs) |-> bs[i].id]

\* Lines 269-273: the velocity a drag from start to end gives the cue body.
StrikeVelocity(start, end) ==
    With(VSub(start, end), LAMBDA force :
    With(force[1] * force[1] + force[2] * force[2], LAMBDA n2 :
        IF n2 > FORCE_CAP * FORCE_CAP
        THEN With(ISqrt(n2 * 100), LAMBDA norm :
                  <<MulDiv(force[1] * FORCE_CAP * P, 10, norm) * FORCE_GAIN,
                    MulDiv(force[2] * FORCE_CAP * P, 10, norm) * FORCE_GAIN>>)
        ELSE <<force[1] * P * FORCE_GAIN, force[2] * P * FORCE_GAIN>>))

\* Respawn that moves the cue body and leaves its velocity as it is.
RespawnMoving(ball) == [ball EXCEPT !.pos = <<SpawnX * P, SpawnY * P>>]

\* Lines 282-285: the cue body put back on its spawn point.
Respawn(ball) ==
    [ball EXCEPT !.pos = <<SpawnX * P, SpawnY * P>>, !.vel = <<0, 0>>, !.ang_vel = 0]

\* ScanStep without the cue test: a pocketed cue body is queued like a target.
ScanStepQueueCue(acc, i, dt) ==
    With(update(acc.balls[i], dt), LAMBDA ball :
    With(check_pocket_fall(ball, get_pockets), LAMBDA fell :
        [balls     |-> [acc.balls EXCEPT ![i] = ball],
         to_remove |-> IF fell THEN Append(acc.to_remove, ball.id) ELSE acc.to_remove,
         scanned   |-> Append(acc.scanned,
                              [id |-> ball.id, pos |-> ball.pos, is_cue |-> ball.is_cue])]))

\* Lines 279-287: the body of the scan loop for place i.  acc.balls is the
\* collection, acc.to_remove the identities queued (balls_to_remove),
\* acc.scanned what update was called on, in order, with the position it left.
ScanStep(acc, i, dt) ==
    With(update(acc.balls[i], dt), LAMBDA ball :
    With(check_pocket_fall(ball, get_pockets), LAMBDA fell :
        [balls     |-> [acc.balls EXCEPT
                            ![i] = IF fell /\ ball.is_cue THEN Respawn(ball) ELSE ball],
         to_remove |-> IF fell /\ ~ball.is_cue
                       THEN Append(acc.to_remove, ball.id)
                       ELSE acc.to_remove,
         scanned   |-> Append(acc.scanned,
                              [id |-> ball.id, pos |-> ball.pos, is_cue |-> ball.is_cue])]))

\* The scan with a pocketed target removed from the collection at once, while
\* the loop goes on to place i + 1 of the shortened collection.
RECURSIVE ScanFromInPlace(_, _, _)
ScanFromInPlace(acc, i, dt) ==
    IF i > Len(acc.balls) THEN acc
    ELSE With(ScanStep(acc, i, dt), LAMBDA nxt :
              IF Len(nxt.to_remove) > Len(acc.to_remove)
              THEN ScanFromInPlace(
                       [nxt EXCEPT !.balls = [k \in 1..(Len(nxt.balls) - 1) |->
                                                 IF k < i THEN nxt.balls[k]
                                                 ELSE nxt.balls[k + 1]]],
                       i + 1, dt)
              ELSE ScanFromInPlace(nxt, i + 1, dt))

\* Line 278: the scan of the collection from place i on.
RECURSIVE ScanFrom(_, _, _)
ScanFrom(acc, i, dt) ==
    IF i > Len(acc.balls) THEN acc
    ELSE With(ScanStep(acc, i, dt), LAMBDA nxt : ScanFrom(nxt, i + 1, dt))
PocketScan(bs, dt) == ScanFrom([balls |-> bs, to_remove |-> <<>>, scanned |-> <<>>], 1, dt)

\* list.remove(b) guarded by `b in balls`: the first body of that identity goes.
RemoveBody(bs, id) ==
    With(IndexOf(bs, id), LAMBDA k :
        IF k = 0 THEN bs
        ELSE [i \in 1..(Len(bs) - 1) |-> IF i < k THEN bs[i] ELSE bs[i + 1]])
\* Lines 289-290
RECURSIVE RemoveQueued(_, _, _)
RemoveQueued(bs, to_remove, i) ==
    IF i > Len(to_remove) THEN bs
    ELSE With(RemoveBody(bs, to_remove[i]), LAMBDA left :
              RemoveQueued(left, to_remove, i + 1))

\* Lines 295-296: one pair of the collection, places i < j.  acc.pairs is the
\* pairs of identities check_collision_sat was called on, in order.
CollidePair(acc, i, j) ==
    With(check_collision_sat(acc.balls[i], acc.balls[j]), LAMBDA col :
        [balls |-> IF col.hit
                   THEN With(resolve_collision(acc.balls[i], acc.balls[j],
                                               col.normal, col.depth), LAMBDA res :
                             [acc.balls EXCEPT ![i] = res[1], ![j] = res[2]])
                   ELSE acc.balls,
         pairs |-> Append(acc.pairs, <<acc.balls[i].id, acc.balls[j].id>>)])
\* Line 294: the inner loop, j from the given place on.
RECURSIVE CollideRow(_, _, _)
CollideRow(acc, i, j) ==
    IF j > Len(acc.balls) THEN acc
    ELSE With(CollidePair(acc, i, j), LAMBDA nxt : CollideRow(nxt, i, j + 1))
\* Line 293: the outer loop, i from the given place on.
RECURSIVE CollideFrom(_, _)
CollideFrom(acc, i) ==
    IF i > Len(acc.balls) THEN acc
    ELSE With(CollideRow(acc, i, i + 1), LAMBDA nxt : CollideFrom(nxt, i + 1))
CollideAll(bs) == CollideFrom([balls |-> bs, pairs |-> <<>>], 1)

\* Lines 277-296: the physics of one frame.
Physics(bs, dt) ==
    With(PocketScan(bs, dt), LAMBDA scan :
    With(RemoveQueued(scan.balls, scan.to_remove, 1), LAMBDA left :
    With(CollideAll(left), LAMBDA col :
        [balls     |-> col.balls,
         handled   |-> scan.balls,
         scanned   |-> scan.scanned,
         to_remove |-> scan.to_remove,
         pairs     |-> col.pairs])))

---------------------------------------------------------------------------
(* The inputs of the game loop *)

MaxFrames == 3

\* What random.randint(3, 6) returns for the 15 targets of one rack: every
\* side count occurs.
SideChoices == {[k \in 1..RackSize |-> 3 + (k % 4)]}

\* clock.tick(FPS) in milliseconds.
DtChoices == {1000 \div FPS + 1}

\* pygame.mouse.get_pos(): a point of each button and a point of the table.
MenuPoint  == <<SCREEN_WIDTH - 100, 20>>
ResetPoint == <<SCREEN_WIDTH - 100, 70>>
QuitPoint  == <<SCREEN_WIDTH - 100, 120>>
TablePoint == <<SpawnX + 100, SpawnY>>
MousePoints == {MenuPoint, ResetPoint, QuitPoint, TablePoint}

---------------------------------------------------------------------------
(* def main: the event handlers and the frame *)

CueBody == balls[IndexOf(balls, cue_ball)]
Remaining == Len(balls) - 1

\* Lines 251-265, event.button = 1; sides is the rack a reset would build.
MOUSEBUTTONDOWN(sides) ==
    /\ pc = "loop"
    /\ IF collidepoint(btn_menu_rect, mouse_pos)
       THEN /\ show_menu' = ~show_menu
            /\ UNCHANGED <<balls, cue_ball, running, is_dragging, start_drag, trace>>
       ELSE IF show_menu
       THEN IF collidepoint(btn_reset_rect, mouse_pos)
            THEN /\ balls' = init_game(sides)
                 /\ cue_ball' = 0
                 /\ show_menu' = FALSE
                 /\ trace' = [op |-> "init_game"]
                 /\ UNCHANGED <<running, is_dragging, start_drag>>
            ELSE IF collidepoint(btn_quit_rect, mouse_pos)
            THEN /\ running' = FALSE
                 /\ UNCHANGED <<balls, cue_ball, show_menu, is_dragging, start_drag, trace>>
            ELSE /\ show_menu' = FALSE
                 /\ UNCHANGED <<balls, cue_ball, running, is_dragging, start_drag, trace>>
       ELSE IF ~show_menu /\ Len(balls) > 1 /\ NormLess(CueBody.vel, STRIKE_SPEED)
       THEN /\ is_dragging' = TRUE
            /\ start_drag' = mouse_pos
            /\ UNCHANGED <<balls, cue_ball, show_menu, running, trace>>
       ELSE UNCHANGED <<balls, cue_ball, show_menu, running, is_dragging, start_drag, trace>>
    /\ UNCHANGED <<mouse_pos, pc, frames>>

\* Lines 267-274, event.button = 1.  trace keeps what held when the velocity
\* was assigned: the cue body's speed test, the number of targets, and whether
\* the assignment changed the velocity.
MOUSEBUTTONUP ==
    /\ pc = "loop"
    /\ IF is_dragging
       THEN /\ balls' = [balls EXCEPT ![IndexOf(balls, cue_ball)].vel =
                                        StrikeVelocity(start_drag, mouse_pos)]
            /\ is_dragging' = FALSE
            /\ trace' = [op |-> "strike",
                         slow |-> NormLess(CueBody.vel, STRIKE_SPEED),
                         targets |-> Remaining,
                         changed |-> StrikeVelocity(start_drag, mouse_pos) # CueBody.vel]
       ELSE UNCHANGED <<balls, is_dragging, trace>>
    /\ UNCHANGED <<cue_ball, start_drag, show_menu, running, mouse_pos, pc, frames>>

\* Line 249
QUIT ==
    /\ pc = "loop"
    /\ running
    /\ running' = FALSE
    /\ UNCHANGED <<balls, cue_ball, is_dragging, start_drag, show_menu, mouse_pos, pc, frames, trace>>

\* What a frame's physics leaves in trace.
PhysicsTrace(bs, ph) ==
    [op        |-> "physics",
     before    |-> Ids(bs),
     scanned   |-> ph.scanned,
     to_remove |-> ph.to_remove,
     handled   |-> [i \in 1..Len(ph.handled) |->
                       [id |-> ph.handled[i].id, pos |-> ph.handled[i].pos,
                        vel |-> ph.handled[i].vel]],
     pairs     |-> ph.pairs]

\* Lines 277-296 and the loop test of line 243, then lines 244-245 of the
\* next iteration: the physics of the frame with the dt sampled for it, and
\* the mouse position the next frame samples.
Frame(dt) ==
    /\ pc = "loop"
    /\ frames < MaxFrames
    /\ \E ph \in {Physics(balls, dt)} :
           /\ balls' = ph.balls
           /\ trace' = PhysicsTrace(balls, ph)
    /\ frames' = frames + 1
    /\ pc' = IF running THEN "loop" ELSE "exit"
    /\ UNCHANGED <<cue_ball, is_dragging, start_drag, show_menu, running>>
    /\ \E mp \in MousePoints : mouse_pos' = mp

\* A body in play: where it is and how it moves (whole units).
InPlay(b, x, y, vx, vy) == [b EXCEPT !.pos = <<x * P, y * P>>, !.vel = <<vx * P, vy * P>>]

\* Games in progress: some targets are pocketed already, the others and the
\* cue body are where play has brought them.
\*   LastTarget: the cue body rests on its spawn point while the last target
\*               rolls into the top left pocket.
\*   Scramble:   the cue body rolls into the bottom right pocket, two targets
\*               roll into pockets, one lies still on a pocket centre (where
\*               the push of a collision can leave it after the scan of the
\*               frame before), one rolls over the spawn point.
\*   Kiss:       the cue body rests on its spawn point and a target rolls into it.
GamesInProgress ==
    LET g == init_game(CHOOSE sides \in SideChoices : TRUE)
    IN  { <<g[1], InPlay(g[2], 150, 150, -600, -600)>>,
          <<InPlay(g[1], 850, 450, 600, 600),
            InPlay(g[3], 150, 150, -600, -600),
            InPlay(g[4], 500, 150, 0, -600),
            InPlay(g[6], TABLE_X + TABLE_WIDTH \div 2,
                         TABLE_Y + TABLE_HEIGHT - BORDER_SIZE, 0, 0),
            InPlay(g[9], 262, 300, 600, 0)>>,
          <<g[1], InPlay(g[5], 262, 300, 600, 0)>> }

\* The state main builds before the loop (lines 231-242), or a later state of
\* the loop with a game in progress.
Init ==
    /\ \/ /\ \E sides \in SideChoices : balls = init_game(sides)
          /\ trace = [op |-> "init_game"]
       \/ /\ balls \in GamesInProgress
          /\ trace = [op |-> "in_progress"]
    /\ cue_ball = 0
    /\ is_dragging = FALSE
    /\ start_drag = <<>>
    /\ show_menu = FALSE
    /\ running = TRUE
    /\ mouse_pos \in MousePoints
    /\ pc = "loop"
    /\ frames = 0

Next ==
    \/ \E sides \in SideChoices : MOUSEBUTTONDOWN(sides)
    \/ MOUSEBUTTONUP
    \/ QUIT
    \/ \E dt \in DtChoices : Frame(dt)

Spec == Init /\ [][Next]_vars

---------------------------------------------------------------------------
(* A RigidBody on its own: constructed, placed, then updated step by step.
   balls holds the one body, frames counts the update calls. *)

MaxSteps == 3

\* RigidBody(x, y, mass, color, shape_type, size) with these arguments.
BodyMasses == {-1, 0, BALL_MASS}
BodyShapes == {<<"cue", CUE_SIDES>>, <<"poly", 5>>}
BodySizes  == {10, BALL_SIZE}

\* b.pos = ..., b.vel = ..., b.ang_vel = ...: on the edges and corners of the
\* table rectangle inset by size / 2, inside it, and outside it; at rest,
\* below the rest thresholds, and moving (1/P).
BodyPlaces(size) ==
    LET xs == <<TABLE_X * P + (size \div 2), (TABLE_X + TABLE_WIDTH \div 2) * P,
                (TABLE_X + TABLE_WIDTH) * P - (size \div 2)>>
        ys == <<TABLE_Y * P + (size \div 2), (TABLE_Y + TABLE_HEIGHT \div 2) * P,
                (TABLE_Y + TABLE_HEIGHT) * P - (size \div 2)>>
    IN  {<<xs[i], ys[j]>> : i \in 1..3, j \in 1..3}
            \cup {<<xs[1] - 5 * P, ys[2]>>, <<xs[3] + 5 * P, ys[3] + 5 * P>>}
BodyVels  == {<<0, 0>>, <<P, -P>>, <<-300 * P, 200 * P>>}
BodySpins == {0, 2 * W}
BodyDts   == {1, 1000 \div FPS + 1, 1000}

Construct(mass, shape, size) ==
    /\ pc = "new"
    /\ balls' = <<RigidBody(1, SpawnX, SpawnY, mass, shape[1], size, shape[2])>>
    /\ trace' = [op |-> "RigidBody", mass |-> mass]
    /\ pc' = "made"
    /\ UNCHANGED <<cue_ball, is_dragging, start_drag, show_menu, running, mouse_pos, frames>>

Place(vel, ang_vel) ==
    /\ pc = "made"
    /\ \E pos \in BodyPlaces(balls[1].size) :
           balls' = <<[balls[1] EXCEPT !.pos = pos, !.vel = vel, !.ang_vel = ang_vel]>>
    /\ trace' = [op |-> "place"]
    /\ pc' = "placed"
    /\ UNCHANGED <<cue_ball, is_dragging, start_drag, show_menu, running, mouse_pos, frames>>

\* b.update(dt); trace keeps dt and what the body was before the call.
Update(dt) ==
    /\ pc = "placed"
    /\ frames < MaxSteps
    /\ balls' = <<update(balls[1], dt)>>
    /\ trace' = [op |-> "update", dt |-> dt, pos |-> balls[1].pos,
                 vel |-> balls[1].vel, ang_vel |-> balls[1].ang_vel]
    /\ frames' = frames + 1
    /\ UNCHANGED <<cue_ball, is_dragging, start_drag, show_menu, running, mouse_pos, pc>>

BodyInit ==
    /\ balls = <<>>
    /\ cue_ball = 0
    /\ is_dragging = FALSE
    /\ start_drag = <<>>
    /\ show_menu = FALSE
    /\ running = TRUE
    /\ mouse_pos = TablePoint
    /\ pc = "new"
    /\ frames = 0
    /\ trace = [op |-> "none"]

BodyNext ==
    \/ \E mass \in BodyMasses, shape \in BodyShapes, size \in BodySizes :
           Construct(mass, shape, size)
    \/ \E vel \in BodyVels, ang_vel \in BodySpins : Place(vel, ang_vel)
    \/ \E dt \in BodyDts : Update(dt)

BodySpec == BodyInit /\ [][BodyNext]_vars

---------------------------------------------------------------------------
(* A pair of bodies: check_collision_sat, resolve_collision, and
   check_collision_sat again.  balls holds body_a and body_b. *)

\* <<shape_type, sides, size, mass>> of body_a and of body_b.
PairKindsA == {<<"cue", CUE_SIDES, BALL_SIZE, BALL_MASS>>,
               <<"poly", 3, 2 * BALL_SIZE, 2 * BALL_MASS>>,
               <<"poly", 4, BALL_SIZE, BALL_MASS>>}
PairKindsB == {<<"poly", 3, BALL_SIZE, BALL_MASS>>,
               <<"poly", 5, 10, BALL_MASS \div 2>>,
               <<"poly", 6, BALL_SIZE, 2 * BALL_MASS>>}
\* Where body_b's centre is from body_a's (whole units): on it, overlapping
\* from several sides, deep inside, apart.
PairOffsets == {<<0, 0>>, <<20, 0>>, <<15, 15>>, <<0, -25>>, <<3, 2>>, <<-10, 5>>,
                <<8, -30>>, <<60, 0>>}
\* <<angle of body_a, angle of body_b>> (1/W rad)
PairAngles == {<<0, 0>>, <<3000, 7000>>, <<40000, 15708>>}
PairVelsA == {<<0, 0>>, <<300 * P, 0>>}
PairVelsB == {<<0, 0>>, <<-200 * P, 100 * P>>, <<400 * P, 0>>}
\* <<ang_vel of body_a, ang_vel of body_b>>
PairSpins == {<<0, 0>>, <<2 * W, -3 * W>>}
\* The normal and depth of a call of resolve_collision made without SAT.
GivenNormals == {<<U, 0>>, <<600, 800>>, <<-707, -707>>}
GivenDepths == {0, 5 * P}

Moving(b, angle, vel, ang_vel) ==
    [b EXCEPT !.angle = angle, !.vel = vel, !.ang_vel = ang_vel]

\* vel_normal as resolve_collision computes it, lines 143-165.
ContactVelNormal(body_a, body_b, normal, depth) ==
    With(Separate(body_a, body_b, normal, depth), LAMBDA moved :
    With(ContactArms(moved[1], moved[2], normal), LAMBDA r :
        VelNormal(moved[1], moved[2], r[1], r[2], normal)))

Detect ==
    /\ pc = "pair"
    /\ trace' = [op |-> "check_collision_sat", col |-> check_collision_sat(balls[1], balls[2])]
    /\ pc' = "checked"
    /\ UNCHANGED <<balls, cue_ball, is_dragging, start_drag, show_menu, running, mouse_pos, frames>>

\* resolve_collision(body_a, body_b, normal, depth); trace keeps the bodies
\* as they were and the vel_normal the call computed.
ResolveCall(normal, depth) ==
    /\ \E res \in {resolve_collision(balls[1], balls[2], normal, depth)} : balls' = res
    /\ trace' = [op |-> "resolve_collision", before |-> balls,
                 normal |-> normal, depth |-> depth,
                 vel_normal |-> ContactVelNormal(balls[1], balls[2], normal, depth)]
    /\ UNCHANGED <<cue_ball, is_dragging, start_drag, show_menu, running, mouse_pos, frames>>

\* Lines 295-296: resolve_collision with what check_collision_sat returned.
Resolve ==
    /\ pc = "checked"
    /\ trace.col.hit
    /\ ResolveCall(trace.col.normal, trace.col.depth)
    /\ pc' = "resolved"

ResolveGiven(normal, depth) ==
    /\ pc = "pair"
    /\ ResolveCall(normal, depth)
    /\ pc' = "given"

Recheck ==
    /\ pc = "resolved"
    /\ trace' = [op |-> "recheck", before |-> trace.before,
                 normal |-> trace.normal, depth |-> trace.depth,
                 col |-> check_collision_sat(balls[1], balls[2])]
    /\ pc' = "done"
    /\ UNCHANGED <<balls, cue_ball, is_dragging, start_drag, show_menu, running, mouse_pos, frames>>

PairInit ==
    /\ \E ka \in PairKindsA, kb \in PairKindsB, off \in PairOffsets, ang \in PairAngles,
          va \in PairVelsA, vb \in PairVelsB, spin \in PairSpins :
           balls = <<Moving(RigidBody(1, SpawnX, SpawnY, ka[4], ka[1], ka[3], ka[2]),
                            ang[1], va, spin[1]),
                     Moving(RigidBody(2, SpawnX + off[1], SpawnY + off[2],
                                      kb[4], kb[1], kb[3], kb[2]),
                            ang[2], vb, spin[2])>>
    /\ cue_ball = 0
    /\ is_dragging = FALSE
    /\ start_drag = <<>>
    /\ show_menu = FALSE
    /\ running = TRUE
    /\ mouse_pos = TablePoint
    /\ pc = "pair"
    /\ frames = 0
    /\ trace = [op |-> "none"]

PairNext ==
    \/ Detect
    \/ Resolve
    \/ \E normal \in GivenNormals, depth \in GivenDepths : ResolveGiven(normal, depth)
    \/ Recheck

PairSpec == PairInit /\ [][PairNext]_vars

---------------------------------------------------------------------------
(* Properties *)

\* The six pocket centres, the capture test and the spawn point, stated from
\* the table's measures (1/P).
PocketCentres ==
    {<<(TABLE_X + dx) * P, (TABLE_Y + dy) * P>> :
        dx \in {BORDER_SIZE, TABLE_WIDTH \div 2, TABLE_WIDTH - BORDER_SIZE},
        dy \in {BORDER_SIZE, TABLE_HEIGHT - BORDER_SIZE}}
InCapture(pos) ==
    \E c \in PocketCentres :
        /\ Abs(pos[1] - c[1]) < 25 * P
        /\ Abs(pos[2] - c[2]) < 25 * P
        /\ (pos[1] - c[1]) * (pos[1] - c[1]) + (pos[2] - c[2]) * (pos[2] - c[2])
               < (25 * P) * (25 * P)
SpawnPoint == <<(TABLE_X + 200) * P, (TABLE_Y + TABLE_HEIGHT \div 2) * P>>
IdSet(bs) == {bs[i].id : i \in 1..Len(bs)}
Range(seq) == {seq[i] : i \in 1..Len(seq)}
CuePlaces == {i \in 1..Len(balls) : balls[i].is_cue}

\* C1: at every point of the game loop the collection holds exactly one body
\* with is_cue set, the one cue_ball names; a tick whose scan finds the cue
\* body inside a capture radius keeps it in the collection.
C1_CueNeverRemoved ==
    /\ Cardinality(CuePlaces) = 1
    /\ \A i \in CuePlaces : balls[i].id = cue_ball
    /\ trace.op = "physics" =>
           \A k \in 1..Len(trace.scanned) :
               trace.scanned[k].is_cue /\ InCapture(trace.scanned[k].pos)
                   => trace.scanned[k].id \in IdSet(balls)

\* A tick has just found the cue body inside a capture radius.
C1_CuePocketed ==
    /\ trace.op = "physics"
    /\ \E k \in 1..Len(trace.scanned) :
           trace.scanned[k].is_cue /\ InCapture(trace.scanned[k].pos)
    /\ Cardinality(CuePlaces) = 1

\* C2: after a tick, every non-cue body whose centre was within the capture
\* radius of a pocket after its update is gone from the collection; a cue body
\* in that situation is in the collection, and the pocket handling left it on
\* the spawn point with zero velocity.
C2_PocketCapture ==
    trace.op = "physics" =>
        \A k \in 1..Len(trace.scanned) :
            InCapture(trace.scanned[k].pos) =>
                IF trace.scanned[k].is_cue
                THEN /\ trace.scanned[k].id \in IdSet(balls)
                     /\ trace.handled[k].id = trace.scanned[k].id
                     /\ trace.handled[k].pos = SpawnPoint
                     /\ trace.handled[k].vel = <<0, 0>>
                ELSE trace.scanned[k].id \notin IdSet(balls)

\* A tick has just captured a target lying still exactly on a pocket centre,
\* and the cue body as well.
C2_CapturedOnCentre ==
    /\ trace.op = "physics"
    /\ \E k \in 1..Len(trace.scanned) :
           /\ ~trace.scanned[k].is_cue
           /\ trace.scanned[k].pos \in PocketCentres
           /\ trace.scanned[k].id \in Range(trace.to_remove)
    /\ \E k \in 1..Len(trace.scanned) :
           trace.scanned[k].is_cue /\ InCapture(trace.scanned[k].pos)

\* C3: whenever a drag release has given the cue body a new velocity, the cue
\* body's speed was below 5 and at least one target was in the collection at
\* the moment of the assignment.
C3_StrikeOnlyWhenPermitted ==
    trace.op = "strike" /\ trace.changed => trace.slow /\ trace.targets >= 1

\* The step is a reset: the menu is open and the mouse is pressed on "Reset".
IsReset ==
    /\ show_menu
    /\ ~show_menu'
    /\ collidepoint(btn_reset_rect, mouse_pos)
    /\ ~collidepoint(btn_menu_rect, mouse_pos)

\* What C4 says of one step.
C4_Step ==
    IF IsReset
    THEN Len(balls') - 1 = 15
    ELSE /\ Len(balls') - 1 <= Len(balls) - 1
         /\ Len(balls') - 1 < Len(balls) - 1 =>
                /\ trace'.op = "physics"
                /\ frames' = frames + 1
                /\ \A i \in 1..Len(balls) :
                       balls[i].id \notin IdSet(balls') =>
                           /\ ~balls[i].is_cue
                           /\ \E k \in 1..Len(trace'.scanned) :
                                  /\ trace'.scanned[k].id = balls[i].id
                                  /\ InCapture(trace'.scanned[k].pos)
         /\ Len(balls) - 1 = 0 => Len(balls') - 1 = 0

\* C4: the number of targets is 15 after init_game (at the start and after a
\* reset); a step that is no reset never raises it, lowers it only in a tick
\* and only by non-cue bodies the tick found inside a capture radius, and
\* leaves it 0 once it is 0.
C4_RemainingCount ==
    /\ [](trace.op = "init_game" => Len(balls) - 1 = 15)
    /\ [][C4_Step]_vars

\* The last target is gone and a later tick has found nothing to capture.
C4_StaysZero ==
    /\ Len(balls) - 1 = 0
    /\ trace.op = "physics"
    /\ trace.to_remove = <<>>
    /\ Len(trace.before) = 1
    /\ frames >= 2

\* The pair's total linear momentum mass * vel, per coordinate.
Momentum(bs) ==
    <<bs[1].mass * bs[1].vel[1] + bs[2].mass * bs[2].vel[1],
      bs[1].mass * bs[1].vel[2] + bs[2].mass * bs[2].vel[2]>>

\* C5: for two bodies of positive mass, the total linear momentum after
\* resolve_collision is the total before it, up to the rounding of the two
\* velocity changes (half a unit of velocity for each body).
C5_MomentumConserved ==
    trace.op = "resolve_collision" /\ balls[1].inv_mass > 0 /\ balls[2].inv_mass > 0 =>
        \A k \in 1..2 :
            2 * Abs(Momentum(balls)[k] - Momentum(trace.before)[k])
                <= balls[1].mass + balls[2].mass

\* resolve_collision has applied an impulse to two bodies of different mass.
C5_ImpulseApplied ==
    /\ trace.op = "resolve_collision"
    /\ balls[1].mass # balls[2].mass
    /\ balls[1].vel # trace.before[1].vel
    /\ balls[2].vel # trace.before[2].vel

\* C6: when the relative normal velocity at the contact point is > 0,
\* resolve_collision leaves vel and ang_vel of both bodies as they were and
\* only pushes the bodies apart by depth / 2 each.
C6_SeparatingUntouched ==
    trace.op = "resolve_collision" /\ trace.vel_normal > 0 =>
        /\ \A i \in 1..2 :
               /\ balls[i].vel = trace.before[i].vel
               /\ balls[i].ang_vel = trace.before[i].ang_vel
        /\ balls[1].pos = VSub(trace.before[1].pos, VScale(trace.normal, trace.depth, 2 * U))
        /\ balls[2].pos = VAdd(trace.before[2].pos, VScale(trace.normal, trace.depth, 2 * U))

\* resolve_collision has run on a moving, spinning pair that was separating
\* at the contact point, with a positive depth.
C6_WasSeparating ==
    /\ trace.op = "resolve_collision"
    /\ trace.vel_normal > 0
    /\ trace.depth > 0
    /\ trace.before[2].vel # <<0, 0>>
    /\ trace.before[1].ang_vel # 0

Contained(body_a, body_b, normal) ==
    LET pa == project(get_world_vertices(body_a), normal)
        pb == project(get_world_vertices(body_b), normal)
    IN  \/ pa[1] <= pb[1] /\ pb[2] <= pa[2]
        \/ pb[1] <= pa[1] /\ pa[2] <= pb[2]

C8_MassValidated ==
    \A i \in 1..Len(balls) : balls[i].mass > 0 /\ balls[i].inertia >= 0

\* The position is on the boundary of the table rectangle inset by size / 2.
OnInsetBoundary(pos, size) ==
    LET lo_x == TABLE_X * P + size \div 2
        hi_x == (TABLE_X + TABLE_WIDTH) * P - size \div 2
        lo_y == TABLE_Y * P + size \div 2
        hi_y == (TABLE_Y + TABLE_HEIGHT) * P - size \div 2
    IN  /\ lo_x <= pos[1] /\ pos[1] <= hi_x
        /\ lo_y <= pos[2] /\ pos[2] <= hi_y
        /\ pos[1] \in {lo_x, hi_x} \/ pos[2] \in {lo_y, hi_y}

\* C9: an update call on a body that lies on the boundary of the inset table
\* rectangle with zero velocity and zero angular velocity leaves its position,
\* velocity and angular velocity as they were, whatever dt > 0 and however
\* many calls went before.
C9_ClampIdempotent ==
    /\ trace.op = "update"
    /\ OnInsetBoundary(trace.pos, balls[1].size)
    /\ trace.vel = <<0, 0>>
    /\ trace.ang_vel = 0
    => /\ balls[1].pos = trace.pos
       /\ balls[1].vel = <<0, 0>>
       /\ balls[1].ang_vel = 0

\* A body at rest in a corner of the inset rectangle has been updated at
\* least twice, the last time with dt = 1 s.
C9_UpdatedInCorner ==
    /\ trace.op = "update"
    /\ frames >= 2
    /\ trace.dt = 1000
    /\ trace.vel = <<0, 0>>
    /\ trace.ang_vel = 0
    /\ trace.pos = <<TABLE_X * P + balls[1].size \div 2,
                     (TABLE_Y + TABLE_HEIGHT) * P - balls[1].size \div 2>>

\* The pairs of places i < j of a sequence of identities, in loop order.
PairsInOrder(ids) ==
    LET n == Len(ids)
        RowStart(i) == ((i - 1) * (2 * n - i)) \div 2
        RowOf(k) == CHOOSE i \in 1..n : RowStart(i) < k /\ k <= RowStart(i + 1)
    IN  [k \in 1..((n * (n - 1)) \div 2) |->
            <<ids[RowOf(k)], ids[RowOf(k) + k - RowStart(RowOf(k))]>>]

\* C10: in a tick, update and the pocket test run once on every body that was
\* in the collection at the start, in order; the bodies queued for removal
\* are out of the collection when the collision checks begin, so the checks
\* run on exactly the pairs of the bodies that were not queued.
C10_TwoPhaseRemoval ==
    trace.op = "physics" =>
        /\ [k \in 1..Len(trace.scanned) |-> trace.scanned[k].id] = trace.before
        /\ \A k \in 1..Len(trace.pairs) :
               /\ trace.pairs[k][1] \notin Range(trace.to_remove)
               /\ trace.pairs[k][2] \notin Range(trace.to_remove)
        /\ trace.pairs =
               PairsInOrder(SelectSeq(trace.before,
                                      LAMBDA id : id \notin Range(trace.to_remove)))
        /\ IdSet(balls) = Range(trace.before) \ Range(trace.to_remove)

\* A tick has queued several bodies and then checked the pairs that were left.
C10_SeveralPocketed ==
    /\ trace.op = "physics"
    /\ Len(trace.to_remove) >= 2
    /\ Len(trace.pairs) >= 1
    /\ Len(trace.before) > Len(trace.to_remove) + 1

====
